---- MODULE Spec2Model ----
(***************************************************************************)
(* Cross-chain bridge relayer (src/script.py): the polling loop of         *)
(* CrossChainBridgeListener, its block-range bookkeeping and nonce dedup,   *)
(* and the event handler RelayerEventHandler.process_lock_event.            *)
(*                                                                         *)
(* Spec        : the listener's run loop, one step per position of the      *)
(*               code (start of a poll cycle, one iteration of the event    *)
(*               loop, end of the loop, sleep).                             *)
(* HandlerSpec : process_lock_event as a function of the event and of what  *)
(*               the destination chain and the gas station answer.          *)
(* StartSpec   : the process from CrossChainBridgeListener(CONFIG) on: the  *)
(*               two connections with their retries, then the run loop.     *)
(* RunSpec     : the run loop with a KeyboardInterrupt arriving anywhere.   *)
(***************************************************************************)
EXTENDS Integers, Sequences, FiniteSets

\* ------------------------------------------------------------------ bounds
MaxHead == 2        \* heights the source chain reports: 0..MaxHead
MaxEvents == 3      \* logs in one fetch result

\* config["source_chain"]["start_block"] and config["block_processing_limit"]
\* (1000000 and 100 in CONFIG), scaled down to the heights above. With limit
\* 0 line 266 caps to_block below the head; with limit 1 the head caps it.
StartBlocks == { 0, 1 }
Limits == { 0, 1 }

\* ------------------------------------------------------------ plain values
Min(a, b) == IF a < b THEN a ELSE b

\* transactionNonce values (bytes32 in the ABI, here one byte long).
Nonces == { <<1>>, <<16>> }

HexChars == << "0", "1", "2", "3", "4", "5", "6", "7",
               "8", "9", "a", "b", "c", "d", "e", "f" >>

\* bytes.hex(): two lower-case hex digits per byte.
RECURSIVE hex(_)
hex(bs) ==
  IF bs = << >> THEN << >>
  ELSE << HexChars[(Head(bs) \div 16) + 1], HexChars[(Head(bs) % 16) + 1] >>
       \o hex(Tail(bs))

\* What a decoded log can look like to the code that reads it:
\*   ok             every field the code reads is there
\*   no_blockNumber event['blockNumber'] raises KeyError
\*   no_nonce       event['args']['transactionNonce'] raises KeyError
\*   no_user        event['args']['user'] raises KeyError
Shapes == { "ok", "no_blockNumber", "no_nonce", "no_user" }

\* The fields of the gas station's fast tier that the handler looks at.
GasFields == { "maxFee", "maxPriorityFee", "maxPriorityFeePerGas" }

\* ------------------------------------------- RelayerEventHandler (handler)
\* What the handler's collaborators answer during one call:
\*   dest_connected  dest_connector.web3 and .contract are set
\*   http            the GET of the gas station: "ok", "request_exception"
\*                   (timeout, HTTP error status: a RequestException) or
\*                   "bad_body" (a body that is no JSON object, so that
\*                   gas_data.get raises AttributeError)
\*   has_fast, fast  whether the body has a 'fast' entry, and its keys
\*   rpc             get_transaction_count / chain_id / build_transaction:
\*                   "ok" or "error" (they raise)
GasReplies ==
  [ http : { "request_exception", "bad_body" }, has_fast : { FALSE }, fast : { {} } ]
  \cup [ http : { "ok" }, has_fast : { FALSE }, fast : { {} } ]
  \cup [ http : { "ok" }, has_fast : { TRUE }, fast : SUBSET GasFields ]

HandlerEnvs ==
  { [ dest_connected |-> c, http |-> g.http, has_fast |-> g.has_fast, fast |-> g.fast,
      rpc |-> r ] : c \in BOOLEAN, g \in GasReplies, r \in { "ok", "error" } }

\* The gas parameter dictionaries of lines 180 and 182-186, by their keys.
FallbackGasParams == { "gas" }
QuotedGasParams == { "gas", "maxFeePerGas", "maxPriorityFeePerGas" }

Returned(result, gas_params) ==
  [ raised |-> FALSE, caught |-> FALSE, result |-> result, gas_params |-> gas_params ]
Raised ==
  [ raised |-> TRUE, caught |-> FALSE, result |-> FALSE, gas_params |-> {} ]

\* _get_recommended_gas_price: the 'fast' entry of the body, or None. Only a
\* RequestException is caught; anything else raised propagates to the caller.
_get_recommended_gas_price(env) ==
  CASE env.http = "request_exception" -> [ raised |-> FALSE, none |-> TRUE, keys |-> {} ]
    [] env.http = "bad_body" -> [ raised |-> TRUE, none |-> TRUE, keys |-> {} ]
    [] OTHER -> IF env.has_fast
                THEN [ raised |-> FALSE, none |-> FALSE, keys |-> env.fast ]
                ELSE [ raised |-> FALSE, none |-> TRUE, keys |-> {} ]

\* Line 177: `not gas_price_info or 'maxPriorityFeePerGas' not in gas_price_info`
\* (None and the empty dict are both falsy).
use_fallback_gas(info) ==
  \/ info.none
  \/ info.keys = {}
  \/ "maxPriorityFeePerGas" \notin info.keys

\* Lines 176-186: the gas parameters, or KeyError from the reads of
\* gas_price_info['maxFee'] and gas_price_info['maxPriorityFee'].
gas_params_of(info) ==
  IF use_fallback_gas(info) THEN [ raised |-> FALSE, params |-> FallbackGasParams ]
  ELSE IF { "maxFee", "maxPriorityFee" } \subseteq info.keys
       THEN [ raised |-> FALSE, params |-> QuotedGasParams ]
       ELSE [ raised |-> TRUE, params |-> {} ]

\* The body of the try block of process_lock_event, lines 158-213.
process_lock_event_body(event, env) ==
  IF event.shape \in { "no_nonce", "no_user" } THEN Raised   \* KeyError, lines 158-165
  ELSE IF ~env.dest_connected THEN Returned(FALSE, {})        \* lines 167-169
  ELSE LET info == _get_recommended_gas_price(env) IN
       IF info.raised THEN Raised
       ELSE LET gas == gas_params_of(info) IN
            IF gas.raised THEN Raised
            ELSE IF env.rpc = "error" THEN Raised              \* lines 189-199
            ELSE Returned(TRUE, gas.params)

\* A handler whose except clause is as narrow as the one of
\* _get_recommended_gas_price: what was raised in the body leaves the call.
process_lock_event_uncaught(event, env) == process_lock_event_body(event, env)

\* process_lock_event: `except Exception` (lines 214-216) turns whatever the
\* body raised into the return value False.
process_lock_event(event, env) ==
  LET out == process_lock_event_body(event, env) IN
  IF out.raised
  THEN [ raised |-> FALSE, caught |-> TRUE, result |-> FALSE, gas_params |-> {} ]
  ELSE out

NoOutcome == [ raised |-> FALSE, caught |-> FALSE, result |-> FALSE, gas_params |-> {"not called"} ]

\* ------------------------------------------------ ChainConnector (source)
\* web3.eth.block_number: a height, or the RPC call raises.
HeightReplies ==
  { [ ok |-> FALSE, value |-> 0 ] } \cup [ ok : { TRUE }, value : 0..MaxHead ]

\* A ChainConnector, by whether self.web3 and self.contract are set.
NotConnected == [ web3 |-> FALSE, contract |-> FALSE ]

\* _connect with the contract object never built (lines 91-94 left out).
ConnectedNoContract == [ web3 |-> TRUE, contract |-> FALSE ]

\* _connect after a successful liveness check (lines 88-95).
Connected == [ web3 |-> TRUE, contract |-> TRUE ]

\* get_latest_block (lines 107-111): ConnectionError without a client.
get_latest_block(connector, reply) ==
  IF ~connector.web3 THEN [ raised |-> TRUE, value |-> 0 ]
  ELSE [ raised |-> ~reply.ok, value |-> reply.value ]

\* The logs a filter over [from_block, to_block] can return: well-formed
\* ones, and ones that lack a field the polling loop reads (the field then
\* has no value). A log that lacks only args['user'] is read by the handler
\* alone and is among HandlerEvents.
OkLogs(from_block, to_block) ==
  [ blockNumber : from_block..to_block, nonce : Nonces, shape : { "ok" } ]

BadLogs(from_block, to_block) ==
  [ blockNumber : { 0 }, nonce : Nonces, shape : { "no_blockNumber" } ]
  \cup [ blockNumber : from_block..to_block, nonce : { << >> }, shape : { "no_nonce" } ]

\* Results of up to MaxEvents logs, at most one of them malformed.
EntriesIn(from_block, to_block) ==
  UNION { [ 1..n -> OkLogs(from_block, to_block) ] : n \in 0..MaxEvents }
  \cup UNION { UNION { { [ j \in 1..n |-> IF j = i THEN m
                                          ELSE IF j < i THEN c[j] ELSE c[j - 1] ] :
                           c \in [ 1..(n - 1) -> OkLogs(from_block, to_block) ],
                           m \in BadLogs(from_block, to_block) } :
                       i \in 1..n } :
               n \in 1..MaxEvents }

\* get_all_entries: the logs, or the query raises.
EventReplies(from_block, to_block) ==
  { [ ok |-> FALSE, entries |-> << >> ] }
  \cup { [ ok |-> TRUE, entries |-> e ] : e \in EntriesIn(from_block, to_block) }

\* get_events (lines 113-126): no contract object, or a failed query, is
\* logged and yields []. Each log is tagged with its place in the result, to
\* tell equal logs apart.
get_events(connector, reply) ==
  IF ~connector.contract \/ ~reply.ok THEN << >>
  ELSE [ i \in DOMAIN reply.entries |->
           [ blockNumber |-> reply.entries[i].blockNumber,
             nonce |-> reply.entries[i].nonce,
             shape |-> reply.entries[i].shape,
             fetchPos |-> i ] ]

\* --------------------------------------------- CrossChainBridgeListener
\* Line 266.
to_block_of(latest, from, limit) == Min(latest, from + limit)

\* Line 268, with the guard left out.
no_new_blocks_unguarded(from, to) == FALSE

\* Line 268: `if from_block > to_block: return`.
no_new_blocks(from, to) == from > to

\* Insertion that puts e before the entries of its own block.
RECURSIVE insert_before_equal(_, _)
insert_before_equal(e, s) ==
  IF s = << >> THEN << e >>
  ELSE IF Head(s).blockNumber < e.blockNumber
       THEN << Head(s) >> \o insert_before_equal(e, Tail(s))
       ELSE << e >> \o s

\* Insertion of e into s (ascending by blockNumber) behind every entry whose
\* blockNumber is not greater.
RECURSIVE insert_by_block(_, _)
insert_by_block(e, s) ==
  IF s = << >> THEN << e >>
  ELSE IF Head(s).blockNumber <= e.blockNumber
       THEN << Head(s) >> \o insert_by_block(e, Tail(s))
       ELSE << e >> \o s

RECURSIVE sorted_into(_, _)
sorted_into(rest, acc) ==
  IF rest = << >> THEN acc
  ELSE sorted_into(Tail(rest), insert_by_block(Head(rest), acc))

\* Line 284: sorted(events, key=lambda e: e['blockNumber']). Python's sort is
\* stable; the key function raises KeyError on a log without blockNumber.
sorted_by_block(evs) ==
  IF \E i \in DOMAIN evs : evs[i].shape = "no_blockNumber"
  THEN [ raised |-> TRUE, value |-> << >> ]
  ELSE [ raised |-> FALSE, value |-> sorted_into(evs, << >>) ]

\* Line 286 with the membership test left out.
already_processed_unchecked(nonce, processed) == FALSE

\* Line 286: `nonce in self.processed_tx_nonces`.
already_processed(nonce, processed) == nonce \in processed

\* Lines 290-291 with the nonce recorded whatever the handler returned.
record_always(processed, nonce, ok) == processed \cup { nonce }

\* Lines 290-291: the nonce is recorded when the handler returned True.
record_result(processed, nonce, ok) ==
  IF ok THEN processed \cup { nonce } ELSE processed

NoScan == [ from |-> 0, to |-> -1 ]

VARIABLES
  block_processing_limit,  \* config["block_processing_limit"]
  last_processed_block,    \* self.last_processed_block
  processed_tx_nonces,     \* self.processed_tx_nonces (hex strings)
  pc,                      \* "poll" | "loop" | "sleep" (run), "handler" | "returned"
  latest_block, from_block, to_block,  \* locals of _poll_for_events
  events,                  \* local `events`, as fetched
  batch, idx,              \* the sorted list the for loop walks, and its position
  cycle,                   \* how the poll cycle ended
  calls,                   \* handler calls of the cycle, in order
  successes,               \* per nonce, handler calls that returned True (capped at 2)
  scan, prev_scan,         \* block ranges of the last get_events call and the one before
  h_event, h_env, h_out,   \* HandlerSpec: one call of process_lock_event
  source_connector,        \* self.source_connector
  dest_connector,          \* self.dest_connector
  event_handler,           \* self.event_handler exists
  connecting,              \* the connector under construction: "source" | "dest" | "none"
  attempt,                 \* failed attempts of the running _connect
  exit_status,             \* 0 while the process runs
  fetch_failed,            \* the cycle's get_events query raised (line 124)
  slept                    \* seconds of the last time.sleep in run, 0 before the first

vars == << block_processing_limit, last_processed_block, processed_tx_nonces, pc,
           latest_block, from_block, to_block, events, batch, idx, cycle, calls,
           successes, scan, prev_scan, h_event, h_env, h_out,
           source_connector, dest_connector, event_handler, connecting, attempt,
           exit_status, fetch_failed, slept >>

startup_vars == << source_connector, dest_connector, event_handler, connecting, attempt,
                   exit_status >>

handler_vars == << h_event, h_env, h_out, startup_vars >>

NoEvent == [ blockNumber |-> 0, nonce |-> << >>, shape |-> "ok", fetchPos |-> 0 ]
NoEnv == [ dest_connected |-> TRUE, http |-> "ok", has_fast |-> FALSE, fast |-> {},
           rpc |-> "ok" ]

\* CrossChainBridgeListener.__init__ (lines 224-246) with both connections up.
Init ==
  /\ block_processing_limit \in Limits
  /\ last_processed_block \in StartBlocks
  /\ processed_tx_nonces = {}
  /\ pc = "poll"
  /\ latest_block = 0 /\ from_block = 0 /\ to_block = 0
  /\ events = << >> /\ batch = << >> /\ idx = 0
  /\ cycle = "none"
  /\ calls = << >>
  /\ successes = [ n \in Nonces |-> 0 ]
  /\ scan = NoScan /\ prev_scan = NoScan
  /\ h_event = NoEvent /\ h_env = NoEnv /\ h_out = NoOutcome
  /\ source_connector = Connected /\ dest_connector = Connected
  /\ event_handler = TRUE
  /\ connecting = "none" /\ attempt = 0 /\ exit_status = 0
  /\ fetch_failed = FALSE /\ slept = 0

\* What the handler's collaborators can answer inside the polling loop: line
\* 167 reads the destination connector that __init__ built.
LoopEnvs ==
  { env \in HandlerEnvs :
      env.dest_connected = (dest_connector.web3 /\ dest_connector.contract) }

Bump(n) == [ successes EXCEPT ![n] = Min(@ + 1, 2) ]

\* A poll cycle starts (line 304).
CycleStart ==
  /\ pc = "poll"
  /\ UNCHANGED << block_processing_limit, processed_tx_nonces, successes, calls,
                  handler_vars, slept >>

\* Line 263 raises (RPC error): caught at line 296, the cycle ends.
PollHeightError ==
  /\ CycleStart
  /\ \E reply \in HeightReplies :
       /\ get_latest_block(source_connector, reply).raised
       /\ cycle' = "poll_error"
       /\ pc' = "sleep"
       /\ UNCHANGED << last_processed_block, latest_block, from_block, to_block,
                       events, batch, idx, scan, prev_scan, fetch_failed >>

\* Lines 263-270: no new blocks, the cycle returns.
PollNoNewBlocks ==
  /\ CycleStart
  /\ \E reply \in HeightReplies :
       LET latest == get_latest_block(source_connector, reply)
           from == last_processed_block + 1
           to == to_block_of(latest.value, from, block_processing_limit)
       IN /\ ~latest.raised
          /\ no_new_blocks(from, to)
          /\ latest_block' = latest.value /\ from_block' = from /\ to_block' = to
          /\ cycle' = "no_new_blocks"
          /\ pc' = "sleep"
          /\ UNCHANGED << last_processed_block, events, batch, idx, scan, prev_scan,
                          fetch_failed >>

\* Lines 263-294 from the call of get_events on: nothing returned (no logs,
\* or a failed query) and the cursor moves to to_block; or sorted() raises on
\* a log without blockNumber, which is caught at line 296 and ends the cycle
\* before line 294; or the events are sorted and the for loop starts.
PollFetch ==
  /\ CycleStart
  /\ \E reply \in HeightReplies :
       LET latest == get_latest_block(source_connector, reply)
           from == last_processed_block + 1
           to == to_block_of(latest.value, from, block_processing_limit)
       IN /\ ~latest.raised
          /\ ~no_new_blocks(from, to)
          /\ \E logs \in EventReplies(from, to) :
               LET evs == get_events(source_connector, logs)
                   srt == sorted_by_block(evs)
               IN /\ latest_block' = latest.value /\ from_block' = from /\ to_block' = to
                  /\ scan' = [ from |-> from, to |-> to ] /\ prev_scan' = scan
                  /\ events' = evs
                  /\ fetch_failed' = ~logs.ok
                  /\ batch' = srt.value
                  /\ IF evs = << >>
                     THEN /\ last_processed_block' = to
                          /\ cycle' = "completed" /\ pc' = "sleep" /\ idx' = 0
                     ELSE IF srt.raised
                     THEN /\ UNCHANGED last_processed_block
                          /\ cycle' = "poll_error" /\ pc' = "sleep" /\ idx' = 0
                     ELSE /\ UNCHANGED last_processed_block
                          /\ cycle' = "running" /\ pc' = "loop" /\ idx' = 1

InLoop == pc = "loop" /\ idx <= Len(batch)

LoopFrame ==
  UNCHANGED << block_processing_limit, last_processed_block, latest_block, from_block,
               to_block, events, batch, scan, prev_scan, handler_vars, fetch_failed,
               slept >>

\* Line 285 raises on a log without args/transactionNonce: caught at line
\* 296, the cycle ends before line 294.
LoopNonceError ==
  /\ InLoop
  /\ batch[idx].shape = "no_nonce"
  /\ cycle' = "poll_error"
  /\ pc' = "sleep"
  /\ UNCHANGED << idx, calls, processed_tx_nonces, successes >>
  /\ LoopFrame

\* Lines 285-288: the nonce is already in the set, the event is skipped.
LoopSkip ==
  /\ InLoop
  /\ batch[idx].shape # "no_nonce"
  /\ already_processed(hex(batch[idx].nonce), processed_tx_nonces)
  /\ idx' = idx + 1
  /\ UNCHANGED << pc, cycle, calls, processed_tx_nonces, successes >>
  /\ LoopFrame

\* Lines 285-291: the handler is called, and the nonce recorded if it
\* returned True. An exception leaving the handler would be caught at 296.
LoopHandle ==
  /\ InLoop
  /\ batch[idx].shape # "no_nonce"
  /\ ~already_processed(hex(batch[idx].nonce), processed_tx_nonces)
  /\ \E out \in { process_lock_event(batch[idx], env) : env \in LoopEnvs } :
       LET ev == batch[idx]
           nonce == hex(ev.nonce)
       IN /\ calls' = Append(calls, [ event |-> ev, result |-> out.result,
                                      raised |-> out.raised, caught |-> out.caught,
                                      seen |-> nonce \in processed_tx_nonces ])
          /\ IF out.raised
             THEN /\ cycle' = "poll_error"
                  /\ pc' = "sleep"
                  /\ UNCHANGED << idx, processed_tx_nonces, successes >>
             ELSE /\ processed_tx_nonces' = record_result(processed_tx_nonces, nonce, out.result)
                  /\ successes' = IF out.result THEN Bump(ev.nonce) ELSE successes
                  /\ idx' = idx + 1
                  /\ UNCHANGED << pc, cycle >>
  /\ LoopFrame

\* A cycle end that keeps the cursor when the handler failed for an event of
\* the batch, so that the range is scanned again.
PollEndKeepingFailed ==
  /\ pc = "loop"
  /\ idx > Len(batch)
  /\ last_processed_block' =
       IF \E i \in DOMAIN calls : ~calls[i].result THEN last_processed_block ELSE to_block
  /\ cycle' = "completed"
  /\ pc' = "sleep"
  /\ UNCHANGED << block_processing_limit, processed_tx_nonces, latest_block, from_block,
                  to_block, events, batch, idx, calls, successes, scan, prev_scan,
                  handler_vars, fetch_failed, slept >>

\* Line 294: the loop is over, the cursor moves to to_block.
PollEnd ==
  /\ pc = "loop"
  /\ idx > Len(batch)
  /\ last_processed_block' = to_block
  /\ cycle' = "completed"
  /\ pc' = "sleep"
  /\ UNCHANGED << block_processing_limit, processed_tx_nonces, latest_block, from_block,
                  to_block, events, batch, idx, calls, successes, scan, prev_scan,
                  handler_vars, fetch_failed, slept >>

\* _poll_for_events (lines 260-297).
_poll_for_events ==
  \/ PollHeightError
  \/ PollNoNewBlocks
  \/ PollFetch
  \/ LoopNonceError
  \/ LoopSkip
  \/ LoopHandle
  \/ PollEnd

\* CONFIG run_interval_seconds (line 35).
run_interval_seconds == 30

\* The literal of time.sleep in run's except Exception branch (line 312).
fault_backoff_seconds == 60

\* run (lines 302-312): _poll_for_events has returned and its locals are
\* gone; sleep, then the next cycle. Lines 310-312 wait longer after an
\* exception that left _poll_for_events; line 296 catches every Exception, so
\* no cycle ends as "fault".
Sleep ==
  /\ pc = "sleep"
  /\ pc' = "poll"
  /\ slept' = IF cycle = "fault" THEN fault_backoff_seconds ELSE run_interval_seconds
  /\ fetch_failed' = FALSE
  /\ latest_block' = 0 /\ from_block' = 0 /\ to_block' = 0
  /\ events' = << >> /\ batch' = << >> /\ idx' = 0
  /\ cycle' = "none"
  /\ calls' = << >>
  /\ prev_scan' = NoScan
  /\ UNCHANGED << block_processing_limit, last_processed_block, processed_tx_nonces,
                  successes, scan, handler_vars >>

Next == _poll_for_events \/ Sleep

Spec == Init /\ [][Next]_vars

\* ------------------------------------------------------------ HandlerSpec
HandlerEvents ==
  [ blockNumber : { 1 }, nonce : Nonces, shape : Shapes, fetchPos : { 1 } ]

\* One call of process_lock_event, for every event and every answer of the
\* handler's collaborators.
HandlerInit ==
  /\ block_processing_limit = 1
  /\ last_processed_block = 0
  /\ processed_tx_nonces = {}
  /\ pc = "handler"
  /\ latest_block = 0 /\ from_block = 0 /\ to_block = 0
  /\ events = << >> /\ batch = << >> /\ idx = 0
  /\ cycle = "none"
  /\ calls = << >>
  /\ successes = [ n \in Nonces |-> 0 ]
  /\ scan = NoScan /\ prev_scan = NoScan
  /\ h_event \in HandlerEvents
  /\ h_env \in HandlerEnvs
  /\ h_out = NoOutcome
  /\ source_connector = Connected /\ dest_connector = Connected
  /\ event_handler = TRUE
  /\ connecting = "none" /\ attempt = 0 /\ exit_status = 0
  /\ fetch_failed = FALSE /\ slept = 0

HandlerCall ==
  /\ pc = "handler"
  /\ h_out' = process_lock_event(h_event, h_env)
  /\ pc' = "returned"
  /\ UNCHANGED << block_processing_limit, last_processed_block, processed_tx_nonces,
                  latest_block, from_block, to_block, events, batch, idx, cycle, calls,
                  successes, scan, prev_scan, h_event, h_env, startup_vars,
                  fetch_failed, slept >>

HandlerNext == HandlerCall

HandlerSpec == HandlerInit /\ [][HandlerNext]_vars

\* -------------------------------------------------------------- StartSpec
\* ChainConnector._connect: max_retries (line 84).
max_retries == 3

\* _connect giving up one attempt early.
retries_exhausted_early(n) == n >= max_retries - 1

\* Line 86: the for loop over range(max_retries) has run out.
retries_exhausted(n) == n >= max_retries

\* Lines 224-232 of __init__: the cursor is set to start_block, nothing is
\* connected yet, ChainConnector(source) is about to be built.
StartInit ==
  /\ block_processing_limit \in Limits
  /\ last_processed_block \in StartBlocks
  /\ processed_tx_nonces = {}
  /\ pc = "connect"
  /\ latest_block = 0 /\ from_block = 0 /\ to_block = 0
  /\ events = << >> /\ batch = << >> /\ idx = 0
  /\ cycle = "none"
  /\ calls = << >>
  /\ successes = [ n \in Nonces |-> 0 ]
  /\ scan = NoScan /\ prev_scan = NoScan
  /\ h_event = NoEvent /\ h_env = NoEnv /\ h_out = NoOutcome
  /\ source_connector = NotConnected /\ dest_connector = NotConnected
  /\ event_handler = FALSE
  /\ connecting = "source" /\ attempt = 0 /\ exit_status = 0
  /\ fetch_failed = FALSE /\ slept = 0

StartFrame ==
  UNCHANGED << block_processing_limit, last_processed_block, processed_tx_nonces,
               latest_block, from_block, to_block, events, batch, idx, cycle, calls,
               successes, scan, prev_scan, h_event, h_env, h_out, fetch_failed, slept >>

\* Lines 86-103, an attempt that fails (is_connected() is False, or the
\* provider raises): a warning, and a delay unless it was the last attempt.
ConnectFail ==
  /\ pc = "connect"
  /\ ~retries_exhausted(attempt)
  /\ attempt' = attempt + 1
  /\ UNCHANGED << pc, source_connector, dest_connector, event_handler, connecting,
                  exit_status >>
  /\ StartFrame

\* Lines 86-95, an attempt that succeeds: the contract object is built and
\* the constructor returns; __init__ goes on with the next component.
ConnectOk ==
  /\ pc = "connect"
  /\ ~retries_exhausted(attempt)
  /\ attempt' = 0
  /\ IF connecting = "source"
     THEN /\ source_connector' = Connected
          /\ connecting' = "dest"
          /\ UNCHANGED << pc, dest_connector >>
     ELSE /\ dest_connector' = Connected
          /\ connecting' = "none"
          /\ pc' = "make_handler"
          /\ UNCHANGED source_connector
  /\ UNCHANGED << event_handler, exit_status >>
  /\ StartFrame

\* Lines 104-105 and 247-249: the retries are used up, _connect raises
\* ConnectionError, __init__ logs it as critical and calls sys.exit(1).
ConnectExhausted ==
  /\ pc = "connect"
  /\ retries_exhausted(attempt)
  /\ pc' = "exited"
  /\ exit_status' = 1
  /\ UNCHANGED << source_connector, dest_connector, event_handler, connecting, attempt >>
  /\ StartFrame

\* Line 246, then lines 315-316: the event handler is built and run() starts.
MakeHandler ==
  /\ pc = "make_handler"
  /\ event_handler' = TRUE
  /\ pc' = "poll"
  /\ UNCHANGED << source_connector, dest_connector, connecting, attempt, exit_status >>
  /\ StartFrame

\* Web3.to_checksum_address (lines 79 and 137) rejects a configured address:
\* ValueError is no ConnectionError, it leaves __init__ and ends the process.
BadAddress ==
  /\ \/ pc = "connect" /\ attempt = 0
     \/ pc = "make_handler"
  /\ pc' = "crashed"
  /\ exit_status' = 1
  /\ UNCHANGED << source_connector, dest_connector, event_handler, connecting, attempt >>
  /\ StartFrame

\* CrossChainBridgeListener.__init__ from line 233 on.
Construct == ConnectFail \/ ConnectOk \/ ConnectExhausted \/ MakeHandler \/ BadAddress

StartNext == Construct \/ Next

StartSpec == StartInit /\ [][StartNext]_vars

\* ---------------------------------------------------------------- RunSpec
\* KeyboardInterrupt (Ctrl-C) arrives while run is in _poll_for_events or in
\* time.sleep: it is no Exception, so lines 214 and 296 let it through, and
\* lines 307-309 log it and leave the while loop.
Interrupt ==
  /\ pc \in { "poll", "loop", "sleep" }
  /\ pc' = "stopped"
  /\ UNCHANGED << block_processing_limit, last_processed_block, processed_tx_nonces,
                  latest_block, from_block, to_block, events, batch, idx, cycle, calls,
                  successes, scan, prev_scan, handler_vars, fetch_failed, slept >>

\* KeyboardInterrupt arrives after process_lock_event returned True (line
\* 290) and before line 291 adds the nonce.
InterruptBeforeRecord ==
  /\ InLoop
  /\ batch[idx].shape # "no_nonce"
  /\ ~already_processed(hex(batch[idx].nonce), processed_tx_nonces)
  /\ \E out \in { process_lock_event(batch[idx], env) : env \in LoopEnvs } :
       /\ out.result
       /\ calls' = Append(calls, [ event |-> batch[idx], result |-> out.result,
                                   raised |-> out.raised, caught |-> out.caught,
                                   seen |-> hex(batch[idx].nonce) \in processed_tx_nonces ])
       /\ successes' = Bump(batch[idx].nonce)
  /\ pc' = "stopped"
  /\ UNCHANGED << processed_tx_nonces, idx, cycle >>
  /\ LoopFrame

RunNext == Next \/ Interrupt \/ InterruptBeforeRecord

RunSpec == Init /\ [][RunNext]_vars

\* ================================================================ claims
\* The handler was called on event e in the current cycle.
Called(e) == \E i \in DOMAIN calls : calls[i].event = e

\* _poll_for_events has returned after fetching events.
CycleOver == pc = "sleep" /\ cycle \in { "completed", "poll_error" } /\ scan # NoScan

\* C1 (idempotent dedup): for every nonce the handler returns success at most
\* once, and the handler is never called on an event whose nonce is already
\* in the processed set: such an event is skipped.
C1_IdempotentDedup ==
  /\ \A n \in Nonces : successes[n] <= 1
  /\ \A i \in DOMAIN calls : ~calls[i].seen

\* An event whose nonce was relayed before has been walked past without a
\* handler call.
C1_Witness ==
  /\ pc = "loop"
  /\ \E k \in 1..(idx - 1) :
       /\ batch[k].shape = "ok"
       /\ successes[batch[k].nonce] = 1
       /\ ~Called(batch[k])

\* C2: a nonce is in the processed set only if a handler call on an event
\* with that nonce returned success before; a call that returned failure
\* does not add its nonce; the handler is called only after the membership
\* test found the nonce absent.
C2_RecordedOnlyAfterSuccess ==
  /\ \A h \in processed_tx_nonces :
       \E n \in Nonces : hex(n) = h /\ successes[n] >= 1
  /\ \A i \in DOMAIN calls :
       (~calls[i].result /\ successes[calls[i].event.nonce] = 0)
         => hex(calls[i].event.nonce) \notin processed_tx_nonces
  /\ \A i \in DOMAIN calls :
       calls[i].result => ~calls[i].seen

\* One call of the cycle failed and its nonce is not recorded, another one
\* succeeded and its nonce is.
C2_Witness ==
  /\ \E i \in DOMAIN calls :
       ~calls[i].result /\ hex(calls[i].event.nonce) \notin processed_tx_nonces
  /\ \E j \in DOMAIN calls :
       calls[j].result /\ hex(calls[j].event.nonce) \in processed_tx_nonces

\* C3 (bounded batch): the block range scanned by one poll cycle holds at
\* most block_processing_limit blocks.
C3_BoundedBatch ==
  scan # NoScan => scan.to - scan.from + 1 <= block_processing_limit

\* C4 (contiguous scan ranges): each cycle's scanned range starts one block
\* after the end of the range scanned before it.
C4_ContiguousScans ==
  (scan # NoScan /\ prev_scan # NoScan) => scan.from = prev_scan.to + 1

\* C5 (monotonic cursor): last_processed_block never decreases, whatever
\* heights are reported and whatever cycles fail.
C5_MonotonicCursor == [][last_processed_block' >= last_processed_block]_vars

\* The source chain reported a head below a block that was scanned before.
C5_Witness ==
  /\ cycle = "no_new_blocks"
  /\ scan # NoScan
  /\ latest_block < scan.to
  /\ latest_block < last_processed_block

\* C6 (order preservation): within a cycle the handler gets the events in
\* ascending block number, events of the same block in fetch order.
C6_OrderPreserved ==
  \A i, j \in DOMAIN calls :
    i < j =>
      \/ calls[i].event.blockNumber < calls[j].event.blockNumber
      \/ /\ calls[i].event.blockNumber = calls[j].event.blockNumber
         /\ calls[i].event.fetchPos < calls[j].event.fetchPos

\* Three events fetched as blocks [b, a, a] with a < b were handled in the
\* order second, third, first.
C6_Witness ==
  /\ Len(calls) = 3
  /\ calls[1].event.fetchPos = 2
  /\ calls[2].event.fetchPos = 3
  /\ calls[3].event.fetchPos = 1
  /\ calls[1].event.blockNumber = calls[2].event.blockNumber
  /\ calls[2].event.blockNumber < calls[3].event.blockNumber

\* C7 (per-event failure isolation): when the handler returned failure for
\* an event, every later event of the batch whose nonce is not processed is
\* passed to the handler in the same cycle, and the failed event's nonce is
\* not marked as processed.
C7_FailureIsolation ==
  CycleOver =>
    \A k \in DOMAIN batch :
      (Called(batch[k]) /\ \E i \in DOMAIN calls : calls[i].event = batch[k] /\ ~calls[i].result)
        => /\ successes[batch[k].nonce] = 0 => hex(batch[k].nonce) \notin processed_tx_nonces
           /\ \A m \in DOMAIN batch :
                (m > k /\ batch[m].shape = "ok")
                  => Called(batch[m]) \/ hex(batch[m].nonce) \in processed_tx_nonces

\* C8: a malformed event does not abort the batch: after the cycle every
\* well-formed event of the fetched batch has been passed to the handler,
\* unless its nonce is processed.
C8_MalformedDoesNotAbort ==
  CycleOver =>
    \A k \in DOMAIN events :
      events[k].shape = "ok"
        => Called(events[k]) \/ hex(events[k].nonce) \in processed_tx_nonces

\* C9: process_lock_event returns True or False and lets no exception out,
\* for every event and every answer of the gas station and the destination
\* chain.
C9_HandlerNeverRaises ==
  pc = "returned" => (~h_out.raised /\ h_out.result \in BOOLEAN)

\* Something was raised inside the handler and came out as False.
C9_Witness == pc = "returned" /\ h_out.caught /\ ~h_out.result

\* The gas station's answer lacks the fast tier or a fee field the handler
\* reads (lines 184-185).
MissingGasFields(env) ==
  \/ ~env.has_fast
  \/ ~({ "maxFee", "maxPriorityFee" } \subseteq env.fast)

\* C10 (gas fallback): when the gas station's answer misses required fields
\* and nothing else fails, the transaction is built with the gas-limit-only
\* parameters and process_lock_event returns success.
C10_GasFallback ==
  ( /\ pc = "returned"
    /\ h_event.shape = "ok"
    /\ h_env.dest_connected
    /\ h_env.http = "ok"
    /\ h_env.rpc = "ok"
    /\ MissingGasFields(h_env) )
    => (h_out.result /\ h_out.gas_params = FallbackGasParams)

\* C11 (quoted gas is used): when the gas station's fast tier carries maxFee
\* and maxPriorityFee and nothing else fails, the transaction is built with
\* the quoted EIP-1559 fees and process_lock_event returns success.
C11_QuotedGasUsed ==
  ( /\ pc = "returned"
    /\ h_event.shape = "ok"
    /\ h_env.dest_connected
    /\ h_env.http = "ok"
    /\ h_env.rpc = "ok"
    /\ ~MissingGasFields(h_env) )
    => (h_out.result /\ h_out.gas_params = QuotedGasParams)

\* C12 (fault recovery): after a poll cycle in which an exception was raised,
\* run waits the longer back-off of 60 seconds before the next cycle.
C12_FaultBackoff ==
  [][ (pc = "sleep" /\ cycle = "poll_error" /\ pc' = "poll")
        => slept' = fault_backoff_seconds ]_vars

\* C13 (cooperative cancellation): when a KeyboardInterrupt has stopped the
\* loop, no cycle is left unfinished: it is not cut before the cursor update,
\* and every event the handler returned success for has its nonce recorded.
C13_StopsBetweenCycles ==
  pc = "stopped" =>
    /\ cycle # "running"
    /\ \A i \in DOMAIN calls :
         calls[i].result => hex(calls[i].event.nonce) \in processed_tx_nonces

\* C14 (connection retry exhaustion): the process exits through sys.exit
\* only after exactly max_retries = 3 failed attempts of one connector; its
\* status is non-zero, no later component was built (no destination connector
\* after a source failure, no event handler), and no poll cycle ever ran or
\* can run.
C14_RetryExhaustion ==
  pc = "exited" =>
    /\ exit_status = 1
    /\ attempt = 3
    /\ ~event_handler
    /\ dest_connector = NotConnected
    /\ connecting = "source" => source_connector = NotConnected
    /\ cycle = "none" /\ scan = NoScan /\ calls = << >>
    /\ ~ENABLED StartNext

\* The source connection failed three times and the process exited.
C14_Witness ==
  /\ pc = "exited"
  /\ connecting = "source"
  /\ attempt = max_retries
  /\ exit_status = 1

\* C15 (failed event fetch is retried): after a cycle whose get_events query
\* failed, the cursor is where it was, so that the next cycle fetches the
\* same range again.
C15_FailedFetchRetried ==
  (pc = "sleep" /\ fetch_failed) => last_processed_block = from_block - 1

\* C16 (cursor advance on completed cycle): a cycle that ran to its end
\* leaves the cursor at exactly to_block = min(head, from_block + limit), not
\* at the head, whatever the handler returned for the events of the batch.
C16_CursorAtToBlock ==
  (pc = "sleep" /\ cycle = "completed") =>
    /\ last_processed_block = to_block
    /\ to_block = scan.to
    /\ to_block = Min(latest_block, from_block + block_processing_limit)

\* A completed cycle below the head in which the handler failed for an event.
C16_Witness ==
  /\ pc = "sleep" /\ cycle = "completed"
  /\ to_block < latest_block
  /\ \E i \in DOMAIN calls : ~calls[i].result
  /\ last_processed_block = to_block

\* C17 (no new blocks): a cycle that computes from_block > to_block fetches
\* nothing, calls no handler and leaves the cursor and the nonce set as they
\* were.
C17_NoNewBlocks ==
  [][ (pc = "poll" /\ pc' # "poll" /\ from_block' > to_block')
        => /\ last_processed_block' = last_processed_block
           /\ processed_tx_nonces' = processed_tx_nonces
           /\ scan' = scan
           /\ events' = << >> /\ calls' = << >> ]_vars

\* A cycle found no new blocks after earlier cycles had relayed an event.
C17_Witness ==
  /\ pc = "sleep" /\ cycle = "no_new_blocks"
  /\ from_block > to_block
  /\ processed_tx_nonces # {}
  /\ calls = << >>

\* C18 (start block is scanned): the first range ever fetched starts at
\* start_block. While that first range is being processed the cursor still
\* holds start_block (line 230; only line 294 changes it).
C18_StartBlockScanned ==
  (pc = "loop" /\ scan # NoScan /\ prev_scan = NoScan) => scan.from = last_processed_block

\* C19 (progress of the cursor): a cycle that read the head and found it
\* above the cursor ends with the cursor strictly greater than it was.
C19_CursorProgress ==
  (pc = "sleep" /\ cycle # "none" /\ from_block > 0 /\ latest_block >= from_block)
    => last_processed_block >= from_block

\* C20 (connected while running): in the polling loop both connectors hold a
\* client and a contract object and the event handler exists; no handler call
\* came back with the 'not connected' result (False with nothing raised).
C20_ConnectedWhileRunning ==
  pc \in { "poll", "loop", "sleep" } =>
    /\ source_connector.web3 /\ source_connector.contract
    /\ dest_connector.web3 /\ dest_connector.contract
    /\ event_handler
    /\ \A i \in DOMAIN calls : ~calls[i].result => calls[i].caught

\* The first cycle after startup is in its for loop and the handler has been
\* called.
C20_Witness ==
  /\ pc = "loop"
  /\ calls # << >>
  /\ source_connector = Connected /\ dest_connector = Connected
  /\ slept = 0

====
